---------------------------- MODULE Spec2Model ----------------------------
(***************************************************************************)
(* Model of Lab5_RecurrentNetwork.py: generate_solar_data (CSV cache,      *)
(* per-day prefix sequences, train/val/test split), next_batch, the        *)
(* training loop, get_mse and the prediction loop.                         *)
(*                                                                         *)
(* The CNTK network itself is outside the model: a trained network is a    *)
(* prediction function of the input sequence, here "last reading + bias".  *)
(***************************************************************************)
EXTENDS Integers, Sequences, FiniteSets, TLC

(* ------------------------------ bounds --------------------------------- *)
\* largest number of days in the CSV files of Spec
MaxDays == 20
\* largest number of days in the CSV files of SpecScript
MaxScriptDays == 14
\* largest number of readings of one day
MaxReadings == 15
\* number of calls of generate_solar_data in SpecCalls
MaxCalls == 3
\* largest number of days in the CSV files of SpecCalls
MaxCallDays == 11
\* the trained network's prediction offsets
MaxBias == 1

(* ------------------------- program constants --------------------------- *)
TIMESTEPS == 14
NORMALIZE == 20000
BATCH_SIZE == TIMESTEPS * 10
MIN_READINGS == 8
FIRST_PREFIX == 2
IS_FAST == TRUE
EPOCHS == IF IS_FAST THEN 200 ELSE 2000
\* val_size=0.1 and test_size=0.1, as the rational 1 / SIZE_DENOM
SIZE_DENOM == 10

SetNames == {"train", "val", "test"}

(* ------------------------------ helpers -------------------------------- *)
Min(a, b) == IF a < b THEN a ELSE b
Max(a, b) == IF a > b THEN a ELSE b

RECURSIVE SeqMax(_)
\* max() of a non-empty column
SeqMax(s) ==
    IF Len(s) = 1 THEN s[1] ELSE Max(s[1], SeqMax(Tail(s)))

\* Python's data[a:b] on a list (0-based, end exclusive, clipped)
Slice(data, a, b) == SubSeq(data, a + 1, Min(b, Len(data)))

\* int(n * 0.1): the fraction of the days
IntFraction(n) == n \div SIZE_DENOM

(* ----------------------------- the CSV file ---------------------------- *)
\* The raw solar.total column of day d (0-based) with n readings: the
\* running total of the day in Wh, distinct from day to day.
RawTotal(d, n) == [k \in 1..n |-> NORMALIZE * ((MaxReadings + 2) * d + k)]

\* A CSV file is given by its days' numbers of readings.
DayLens == {MIN_READINGS - 1, MIN_READINGS, TIMESTEPS - 2, TIMESTEPS, MaxReadings}

\* files of n days, all of `base` readings but for at most one day
CsvOfDays(n, bases) ==
    { [d \in 1..n |-> IF d = p THEN q ELSE b] :
        b \in bases, p \in 0..n, q \in DayLens }

CsvFiles == UNION { CsvOfDays(n, DayLens) : n \in 0..MaxDays }

CallCsvFiles == UNION { CsvOfDays(n, DayLens) : n \in 0..MaxCallDays }

ScriptCsvFiles ==
    UNION { CsvOfDays(n, {MaxReadings}) : n \in (MaxScriptDays - 2)..MaxScriptDays }

VARIABLES
    csv,          \* the content of the CSV at input_url (and of the cache)
    cache_path,   \* os.path.exists("data/iot")
    cache_file,   \* os.path.exists("data/iot/solar.csv")
    downloads,    \* number of urlretrieve calls so far
    calls,        \* number of generate_solar_data calls started
    pc,           \* position of the script
    per_day,      \* list of the days' normalized solar.total columns
    val_size, test_size, next_val, next_test,
    i,            \* index of the day loop
    day_set,      \* current_set chosen for each day seen ("skip" if skipped)
    result_x, result_y,
    X, Y,         \* the globals X, Y
    epoch,        \* the training loop's epoch
    ds,           \* the split next_batch iterates
    bi,           \* next_batch's next start index i
    x_batch, l_batch,   \* the minibatch last yielded
    yielded_x, yielded_y, \* the minibatches yielded in this pass, concatenated
    trained,      \* number of trainer.train_minibatch calls
    loss_summary, \* epochs whose loss was recorded
    bias,         \* the network's parameters (its prediction offset)
    result,       \* get_mse's accumulator, a fraction <<num, den>>
    mse,          \* what get_mse returned per split
    results       \* the prediction loop's list

genVars == <<per_day, val_size, test_size, next_val, next_test, i, day_set,
             result_x, result_y>>
cacheVars == <<cache_path, cache_file, downloads>>
batchVars == <<ds, bi, x_batch, l_batch, yielded_x, yielded_y>>
evalVars == <<result, mse, results>>
trainVars == <<epoch, trained, loss_summary, bias>>
vars == <<csv, cacheVars, calls, pc, genVars, X, Y, batchVars, trainVars, evalVars>>

EmptySets == [s \in SetNames |-> <<>>]

(* ------------------------ generate_solar_data -------------------------- *)
\* df['solar.total'] /= normalize
Normalized(col, normalize) == [k \in 1..Len(col) |-> col[k] \div normalize]

\* read_csv, normalize, group by day: the list of the days' columns
PerDay(file, normalize) ==
    [d \in 1..Len(file) |-> Normalized(RawTotal(d - 1, file[d]), normalize)]

RECURSIVE PrefixLoop(_, _, _, _)
\* for j in range(2, len(total)): append total[0:j]; if j >= time_steps: break
PrefixLoop(total, j, time_steps, acc) ==
    IF j >= Len(total) THEN acc
    ELSE LET acc2 == Append(acc, Slice(total, 0, j))
         IN  IF j >= time_steps THEN acc2
             ELSE PrefixLoop(total, j + 1, time_steps, acc2)

\* the loop started at range(1, ...)
DaySequencesFromOne(total, time_steps) == PrefixLoop(total, 1, time_steps, <<>>)

DaySequences(total, time_steps) == PrefixLoop(total, FIRST_PREFIX, time_steps, <<>>)

\* the label appended with each sequence: [max_total_for_day]
DayLabel(total) == <<SeqMax(total)>>

\* the threshold off by one, either way
SkippedBelowSeven(total) == Len(total) < MIN_READINGS - 1
SkippedBelowNine(total) == Len(total) <= MIN_READINGS

\* a day with fewer readings is skipped
Skipped(total) == Len(total) < MIN_READINGS

\* the set of day idx: "val", "test" or "train"
CurrentSet(idx, nv, nt) ==
    IF idx >= nv THEN "val" ELSE IF idx >= nt THEN "test" ELSE "train"

\* the download made whether the cache file exists or not
FetchCsvAlways ==
    /\ pc = "fetch"
    /\ cache_path' = TRUE
    /\ cache_file' = TRUE
    /\ downloads' = downloads + 1
    /\ pc' = "read"
    /\ UNCHANGED <<csv, calls, genVars, X, Y, batchVars, trainVars, evalVars>>

\* os.makedirs and urlretrieve, or the cache
FetchCsv ==
    /\ pc = "fetch"
    /\ cache_path' = TRUE
    /\ IF ~cache_file
         THEN /\ cache_file' = TRUE
              /\ downloads' = downloads + 1
         ELSE UNCHANGED <<cache_file, downloads>>
    /\ pc' = "read"
    /\ UNCHANGED <<csv, calls, genVars, X, Y, batchVars, trainVars, evalVars>>

\* read_csv .. the initialisation of the day loop
ReadCsv ==
    /\ pc = "read"
    /\ per_day' = PerDay(csv, NORMALIZE)
    /\ val_size' = IntFraction(Len(csv))
    /\ test_size' = IntFraction(Len(csv))
    /\ next_val' = 0
    /\ next_test' = 0
    /\ i' = 0
    /\ day_set' = <<>>
    /\ result_x' = EmptySets
    /\ result_y' = EmptySets
    /\ pc' = "days"
    /\ UNCHANGED <<csv, cacheVars, calls, X, Y, batchVars, trainVars, evalVars>>

\* one iteration of the day loop on a day that is skipped
SkipDay ==
    /\ pc = "days"
    /\ i < Len(per_day)
    /\ Skipped(per_day[i + 1])
    /\ i' = i + 1
    /\ day_set' = Append(day_set, "skip")
    /\ UNCHANGED <<per_day, val_size, test_size, next_val, next_test,
                   result_x, result_y>>
    /\ UNCHANGED <<csv, cacheVars, calls, pc, X, Y, batchVars, trainVars, evalVars>>

\* one iteration of the day loop on a day that is kept
ProcessDay ==
    /\ pc = "days"
    /\ i < Len(per_day)
    /\ ~Skipped(per_day[i + 1])
    /\ (CurrentSet(i, next_val, next_test) = "val" => val_size # 0)
    /\ (CurrentSet(i, next_val, next_test) = "test" => test_size # 0)
    /\ LET total == per_day[i + 1]
           current_set == CurrentSet(i, next_val, next_test)
           seqs == DaySequences(total, TIMESTEPS)
       IN  /\ next_val' = IF current_set = "val"
                            THEN i + (Len(per_day) \div val_size) ELSE next_val
           /\ next_test' = IF current_set = "test"
                             THEN i + (Len(per_day) \div test_size) ELSE next_test
           /\ result_x' = [result_x EXCEPT ![current_set] = @ \o seqs]
           /\ result_y' = [result_y EXCEPT ![current_set] =
                              @ \o [k \in 1..Len(seqs) |-> DayLabel(total)]]
           /\ day_set' = Append(day_set, current_set)
    /\ i' = i + 1
    /\ UNCHANGED <<per_day, val_size, test_size>>
    /\ UNCHANGED <<csv, cacheVars, calls, pc, X, Y, batchVars, trainVars, evalVars>>

\* int(len(per_day) / val_size) with val_size = 0: ZeroDivisionError
DivideByZero ==
    /\ pc = "days"
    /\ i < Len(per_day)
    /\ ~Skipped(per_day[i + 1])
    /\ \/ CurrentSet(i, next_val, next_test) = "val" /\ val_size = 0
       \/ CurrentSet(i, next_val, next_test) = "test" /\ test_size = 0
    /\ pc' = "raised"
    /\ UNCHANGED <<csv, cacheVars, calls, genVars, X, Y, batchVars, trainVars, evalVars>>

\* the day loop is over: return result_x, result_y
Return ==
    /\ pc = "days"
    /\ i >= Len(per_day)
    /\ X' = result_x
    /\ Y' = result_y
    /\ pc' = "returned"
    /\ UNCHANGED <<csv, cacheVars, calls, genVars, batchVars, trainVars, evalVars>>

\* another call of generate_solar_data
CallAgain ==
    /\ pc = "returned"
    /\ calls < MaxCalls
    /\ calls' = calls + 1
    /\ pc' = "fetch"
    /\ UNCHANGED <<csv, cacheVars, genVars, X, Y, batchVars, trainVars, evalVars>>

InitCommon ==
    /\ cache_path \in BOOLEAN
    /\ cache_file \in BOOLEAN
    /\ cache_file => cache_path
    /\ downloads = 0
    /\ calls = 1
    /\ pc = "fetch"
    /\ per_day = <<>>
    /\ val_size = 0 /\ test_size = 0 /\ next_val = 0 /\ next_test = 0
    /\ i = 0
    /\ day_set = <<>>
    /\ result_x = EmptySets /\ result_y = EmptySets
    /\ X = EmptySets /\ Y = EmptySets
    /\ epoch = 0
    /\ ds = "train"
    /\ bi = 0
    /\ x_batch = <<>> /\ l_batch = <<>>
    /\ yielded_x = <<>> /\ yielded_y = <<>>
    /\ trained = 0
    /\ loss_summary = <<>>
    /\ bias = 0
    /\ result = <<0, 1>>
    /\ mse = <<>>
    /\ results = <<>>

(* ------------------------------ next_batch ----------------------------- *)
\* the slice without its end, and the slice taken one place late
AsBatchToEnd(data, start, count) == Slice(data, start, Len(data))
AsBatchShifted(data, start, count) == Slice(data, start + 1, start + 1 + count)

\* as_batch(data, start, count)
AsBatch(data, start, count) == Slice(data, start, start + count)

\* range(0, len(x[ds]), BATCH_SIZE) has a value left at pos
HasNextBatch(x, d, pos) == pos < Len(x[d])

\* the generator yields its next minibatch (of the globals X, Y) and advances
YieldBatch ==
    /\ x_batch' = AsBatch(X[ds], bi, BATCH_SIZE)
    /\ l_batch' = AsBatch(Y[ds], bi, BATCH_SIZE)
    /\ yielded_x' = yielded_x \o AsBatch(X[ds], bi, BATCH_SIZE)
    /\ yielded_y' = yielded_y \o AsBatch(Y[ds], bi, BATCH_SIZE)
    /\ bi' = bi + BATCH_SIZE
    /\ UNCHANGED ds

\* next_batch(X, Y, d) is called: a new pass
NewPass(d) ==
    /\ ds' = d
    /\ bi' = 0
    /\ yielded_x' = <<>>
    /\ yielded_y' = <<>>
    /\ UNCHANGED <<x_batch, l_batch>>

(* ------------------------------ the network ---------------------------- *)
\* z.eval on one sequence
Predict(x, b) == x[Len(x)] + b

\* C.squared_error(z, l) on one example
SquaredError(x, y, b) == (Predict(x, b) - y[1]) * (Predict(x, b) - y[1])

RECURSIVE SumErrors(_, _, _, _, _)
\* the squared errors of examples lo..hi, summed
SumErrors(xs, ys, b, lo, hi) ==
    IF lo > hi THEN 0
    ELSE IF lo = hi THEN SquaredError(xs[lo], ys[lo], b)
    ELSE LET mid == (lo + hi) \div 2
         IN  SumErrors(xs, ys, b, lo, mid) + SumErrors(xs, ys, b, mid + 1, hi)

SumSquaredError(xs, ys, b) == SumErrors(xs, ys, b, 1, Len(xs))

RECURSIVE Gcd(_, _)
Gcd(a, b) == IF b = 0 THEN a ELSE Gcd(b, a % b)

\* fractions <<num, den>> in lowest terms stand for the floats
Frac(n, d) == IF n = 0 THEN <<0, 1>> ELSE <<n \div Gcd(n, d), d \div Gcd(n, d)>>
FracAdd(p, q) == Frac(p[1] * q[2] + q[1] * p[2], p[2] * q[2])
FracDiv(p, n) == Frac(p[1], p[2] * n)

\* trainer.test_minibatch: the average error of the minibatch
TestMinibatchError(xs, ys, b) == Frac(SumSquaredError(xs, ys, b), Len(xs))

(* ---------------------------- training loop ---------------------------- *)
\* the script goes on after X, Y = generate_solar_data(...)
StartTraining ==
    /\ pc = "returned"
    /\ pc' = "train"
    /\ epoch' = 0
    /\ NewPass("train")
    /\ UNCHANGED <<csv, cacheVars, calls, genVars, X, Y, trained, loss_summary,
                   bias, evalVars>>

\* one iteration of: for x_batch, l_batch in next_batch(X, Y, "train")
TrainMinibatch ==
    /\ pc = "train"
    /\ HasNextBatch(X, ds, bi)
    /\ YieldBatch
    /\ trained' = trained + 1
    /\ UNCHANGED <<csv, cacheVars, calls, pc, genVars, X, Y, epoch, loss_summary,
                   bias, evalVars>>

\* epoch % (EPOCHS / 10) == 0
RecordsLoss(e) == (e * 10) % EPOCHS = 0

\* the pass is over: record the loss, next epoch or leave the loop
EndEpoch ==
    /\ pc = "train"
    /\ ~HasNextBatch(X, ds, bi)
    /\ loss_summary' = IF RecordsLoss(epoch)
                         THEN Append(loss_summary, epoch) ELSE loss_summary
    /\ epoch' = epoch + 1
    /\ IF epoch + 1 < EPOCHS
         THEN /\ NewPass("train")
              /\ UNCHANGED <<pc, bias, result>>
         ELSE \* training is over; get_mse(X, Y, "train") starts
              /\ pc' = "mse"
              /\ bias' \in 0..MaxBias
              /\ result' = <<0, 1>>
              /\ NewPass("train")
    /\ UNCHANGED <<csv, cacheVars, calls, genVars, X, Y, trained, mse, results>>

(* ------------------------------- get_mse ------------------------------- *)
\* one iteration of: for x1, y1 in next_batch(X, Y, labeltxt)
TestMinibatch ==
    /\ pc = "mse"
    /\ HasNextBatch(X, ds, bi)
    /\ YieldBatch
    /\ result' = FracAdd(result,
                    TestMinibatchError(AsBatch(X[ds], bi, BATCH_SIZE),
                                       AsBatch(Y[ds], bi, BATCH_SIZE), bias))
    /\ UNCHANGED <<csv, cacheVars, calls, pc, genVars, X, Y, trainVars, mse, results>>

\* return result/len(X[labeltxt])
MseValue(res, x, d) == FracDiv(res, Len(x[d]))

\* get_mse returns; the next split, or the prediction loop
\* (an empty split would raise ZeroDivisionError; no file of InitScript has one)
ReturnMse ==
    /\ pc = "mse"
    /\ ~HasNextBatch(X, ds, bi)
    /\ Len(X[ds]) # 0
    /\ mse' = Append(mse, [labeltxt |-> ds, value |-> MseValue(result, X, ds)])
    /\ IF ds = "train" THEN NewPass("val") /\ result' = <<0, 1>> /\ UNCHANGED <<pc, results>>
       ELSE IF ds = "val" THEN NewPass("test") /\ result' = <<0, 1>> /\ UNCHANGED <<pc, results>>
       ELSE /\ pc' = "predict"
            /\ NewPass("val")
            /\ results' = <<>>
            /\ UNCHANGED result
    /\ UNCHANGED <<csv, cacheVars, calls, genVars, X, Y, trainVars>>

(* --------------------------- prediction loop --------------------------- *)
\* one iteration of: for x_batch, _ in next_batch(X, Y, ds)
PredictMinibatch ==
    /\ pc = "predict"
    /\ HasNextBatch(X, ds, bi)
    /\ YieldBatch
    /\ results' = results \o
          [k \in 1..Len(AsBatch(X[ds], bi, BATCH_SIZE)) |->
              Predict(AsBatch(X[ds], bi, BATCH_SIZE)[k], bias)]
    /\ UNCHANGED <<csv, cacheVars, calls, pc, genVars, X, Y, trainVars, result, mse>>

\* the split is plotted; the next split, or the end of the script
EndPredict ==
    /\ pc = "predict"
    /\ ~HasNextBatch(X, ds, bi)
    /\ IF ds = "val"
         THEN /\ NewPass("test")
              /\ results' = <<>>
              /\ UNCHANGED pc
         ELSE /\ pc' = "done"
              /\ UNCHANGED <<batchVars, results>>
    /\ UNCHANGED <<csv, cacheVars, calls, genVars, X, Y, trainVars, result, mse>>

(* ---------------------------- specifications --------------------------- *)
\* one call of generate_solar_data on any of the CSV files
Init == csv \in CsvFiles /\ InitCommon

Generate == FetchCsv \/ ReadCsv \/ SkipDay \/ ProcessDay \/ DivideByZero \/ Return

Next == Generate

Spec == Init /\ [][Next]_vars

\* MaxCalls calls of generate_solar_data, one after the other
InitCalls == csv \in CallCsvFiles /\ InitCommon

NextCalls == Generate \/ CallAgain

SpecCalls == InitCalls /\ [][NextCalls]_vars

\* the whole script, on the CSV files that have enough days to be split
InitScript == csv \in ScriptCsvFiles /\ InitCommon

Train == StartTraining \/ TrainMinibatch \/ EndEpoch

Evaluate == TestMinibatch \/ ReturnMse \/ PredictMinibatch \/ EndPredict

NextScript ==
    \/ FetchCsv \/ ReadCsv \/ SkipDay \/ ProcessDay \/ Return
    \/ Train
    \/ Evaluate

SpecScript == InitScript /\ [][NextScript]_vars

(* ================================ claims =============================== *)
\* the day (0-based) an input sequence was cut from
DayOf(x) == (x[1] - 1) \div (MaxReadings + 2)

\* the input sequences of day d in set s, in the order they were appended
InputsOfDay(xs, d) == SelectSeq(xs, LAMBDA x : DayOf(x) = d)

\* the prefixes total[0:L] for L = 2 .. hi, in increasing L
Prefixes(total, hi) == [k \in 1..(hi - 1) |-> SubSeq(total, 1, k + 1)]

\* a day of the loop has just been handled, and it had at least 8 readings
KeptDayDone == pc = "days" /\ i > 0 /\ Len(per_day[i]) >= MIN_READINGS

AllInputsOfDay(d) ==
    InputsOfDay(result_x["train"], d) \o InputsOfDay(result_x["val"], d)
        \o InputsOfDay(result_x["test"], d)

\* other values of the parameter time_steps
WindowSizes == {2, MIN_READINGS - 1, MIN_READINGS, TIMESTEPS - 1, MaxReadings + 1}

\* C1 as claimed: a day with n >= 8 readings yields exactly the prefixes of
\* length 2 .. min(n, time_steps), in increasing length.
C1_PrefixesUpToN ==
    KeptDayDone =>
        AllInputsOfDay(i - 1) =
            Prefixes(per_day[i], Min(Len(per_day[i]), TIMESTEPS))

\* C1 amended: a day with n >= 8 readings yields exactly the prefixes of
\* length 2 .. min(n - 1, time_steps), in increasing length, and nothing else;
\* the same for other windows time_steps >= 2.
C1_ProperPrefixes ==
    KeptDayDone =>
        /\ AllInputsOfDay(i - 1) =
              Prefixes(per_day[i], Min(Len(per_day[i]) - 1, TIMESTEPS))
        /\ \A ts \in WindowSizes :
              DaySequences(per_day[i], ts) =
                  Prefixes(per_day[i], Min(Len(per_day[i]) - 1, ts))

C1_Witness ==
    /\ KeptDayDone
    /\ Len(per_day[i]) = MIN_READINGS
    /\ Len(AllInputsOfDay(i - 1)) = MIN_READINGS - 2
    /\ \E d \in 1..(i - 1) : Len(per_day[d]) > TIMESTEPS /\ day_set[d] # "skip"

\* number of the days b .. b+9 given to set s
InBlock(b, s) == Cardinality({d \in (b + 1)..(b + 10) : day_set[d] = s})

\* C2 as claimed: every block of 10 consecutive days gives 8 days to train,
\* 1 to val and 1 to test, whatever days are skipped.
C2_EightOneOne ==
    pc = "returned" =>
        \A b \in 0..Len(day_set) :
            (b % 10 = 0 /\ b + 10 <= Len(day_set)) =>
                /\ InBlock(b, "train") = 8
                /\ InBlock(b, "val") = 1
                /\ InBlock(b, "test") = 1

\* C3: the loop's step on a day with fewer than 8 readings changes none of
\* result_x, result_y, X, Y, next_val, next_test.
C3_SkippedDayFrame ==
    [][ (pc = "days" /\ i < Len(per_day) /\ Len(per_day[i + 1]) < MIN_READINGS)
          => /\ result_x' = result_x
             /\ result_y' = result_y
             /\ X' = X /\ Y' = Y
             /\ next_val' = next_val
             /\ next_test' = next_test ]_vars

C3_Witness ==
    /\ pc = "days" /\ i > 1
    /\ Len(per_day[i]) < MIN_READINGS
    /\ day_set[i] = "skip"
    /\ result_x["val"] # <<>>
    /\ next_val > 0

\* C4 as claimed: a minibatch holds whole days: it starts with the first
\* sequence of a day, and what follows it in the split starts a day too.
C4_DayAligned ==
    x_batch # <<>> =>
        /\ Len(x_batch[1]) = FIRST_PREFIX
        /\ (bi < Len(X[ds]) => Len(X[ds][bi + 1]) = FIRST_PREFIX)

\* C5 as claimed: every minibatch has BATCH_SIZE sequences and BATCH_SIZE labels.
C5_FixedSize ==
    x_batch # <<>> => Len(x_batch) = BATCH_SIZE /\ Len(l_batch) = BATCH_SIZE

\* C5 amended: a minibatch has as many labels as sequences, at least one and at
\* most BATCH_SIZE; the one yielded at start index s has
\* min(BATCH_SIZE, len(X[ds]) - s) of them, so only the last one of a pass can
\* be smaller.
C5_BatchSize ==
    /\ Len(l_batch) = Len(x_batch)
    /\ Len(x_batch) <= BATCH_SIZE
    /\ bi > 0 =>
          /\ Len(x_batch) >= 1
          /\ Len(x_batch) = Min(BATCH_SIZE, Len(X[ds]) - (bi - BATCH_SIZE))

C5_Witness ==
    /\ pc = "train"
    /\ bi = 2 * BATCH_SIZE
    /\ Len(x_batch) < BATCH_SIZE
    /\ Len(X[ds]) > BATCH_SIZE

\* C6 as claimed: get_mse returns the sum of the squared errors of the split's
\* examples divided by their number.
C6_MeanSquaredError ==
    \A k \in 1..Len(mse) :
        mse[k].value =
            Frac(SumSquaredError(X[mse[k].labeltxt], Y[mse[k].labeltxt], bias),
                 Len(X[mse[k].labeltxt]))

\* C7: urlretrieve runs only in a call that finds the cache file absent, the
\* file exists once the fetch is done, and an existing file stays and is read
\* without a download: at most one download.
C7_DownloadOnce ==
    /\ [](downloads <= 1)
    /\ [](pc # "fetch" => cache_file /\ cache_path)
    /\ [][ /\ downloads' # downloads => ~cache_file /\ downloads' = downloads + 1
           /\ cache_file => cache_file' /\ downloads' = downloads ]_vars

C7_Witness ==
    /\ calls = MaxCalls
    /\ pc = "returned"
    /\ downloads = 1

\* the days whose sequences are in set s
DaysIn(s) == {DayOf(result_x[s][k]) : k \in 1..Len(result_x[s])}

\* consecutive sequences of a set: the next prefix of the same day, or the
\* first prefix of a later day
InDayOrder(xs) ==
    \A k \in 1..(Len(xs) - 1) :
        \/ DayOf(xs[k + 1]) = DayOf(xs[k]) /\ Len(xs[k + 1]) = Len(xs[k]) + 1
        \/ DayOf(xs[k + 1]) > DayOf(xs[k]) /\ Len(xs[k + 1]) = FIRST_PREFIX

\* C8: on return, every day with at least 8 readings is in exactly one of
\* train, val, test; each set holds its days whole, in day order, each
\* sequence with the label of its own day at the same index.
C8_SplitOnDayBoundaries ==
    pc = "returned" =>
        /\ DaysIn("train") \cup DaysIn("val") \cup DaysIn("test") =
              {d \in 0..(Len(per_day) - 1) : Len(per_day[d + 1]) >= MIN_READINGS}
        /\ DaysIn("train") \cap DaysIn("val") = {}
        /\ DaysIn("train") \cap DaysIn("test") = {}
        /\ DaysIn("val") \cap DaysIn("test") = {}
        /\ \A s \in SetNames :
              /\ InDayOrder(result_x[s])
              /\ Len(result_y[s]) = Len(result_x[s])
              /\ \A k \in 1..Len(result_x[s]) :
                    result_y[s][k] = <<SeqMax(per_day[DayOf(result_x[s][k]) + 1])>>
              /\ \A d \in DaysIn(s) :
                    Len(InputsOfDay(result_x[s], d)) =
                        Min(Len(per_day[d + 1]) - 1, TIMESTEPS) - 1

C8_Witness ==
    /\ pc = "returned"
    /\ Cardinality(DaysIn("val")) >= 2
    /\ Cardinality(DaysIn("test")) >= 2
    /\ Cardinality(DaysIn("train")) >= 2
    /\ \E d \in 1..Len(day_set) : day_set[d] = "skip"

\* C9 as claimed: in Fast mode the training loop ends after 100 epochs.
C9_HundredEpochs ==
    pc \in {"mse", "predict", "done"} => epoch = 100

\* C10: the minibatches of a pass are the consecutive slices of X[ds] and
\* Y[ds]: those yielded so far make up the first min(i, len) examples, the
\* last one is X[ds][i-BATCH_SIZE : i] with the labels of the same indexes,
\* and when the pass is over they make up X[ds] and Y[ds]; the predictions
\* collected over a pass are those of X[ds], in order.
C10_ConsecutiveSlices ==
    /\ Len(yielded_x) = Min(bi, Len(X[ds]))
    /\ yielded_x = SubSeq(X[ds], 1, Len(yielded_x))
    /\ yielded_y = SubSeq(Y[ds], 1, Len(yielded_x))
    /\ bi > 0 =>
          /\ x_batch = SubSeq(X[ds], bi - BATCH_SIZE + 1, Min(bi, Len(X[ds])))
          /\ l_batch = SubSeq(Y[ds], bi - BATCH_SIZE + 1, Min(bi, Len(Y[ds])))
    /\ (pc \in {"train", "mse", "predict"} /\ ~HasNextBatch(X, ds, bi)) =>
          yielded_x = X[ds] /\ yielded_y = Y[ds]
    /\ (pc = "predict" /\ ~HasNextBatch(X, ds, bi)) =>
          results = [k \in 1..Len(X[ds]) |-> X[ds][k][Len(X[ds][k])] + bias]

C10_Witness ==
    /\ pc = "mse"
    /\ ds = "train"
    /\ bi = 2 * BATCH_SIZE
    /\ Len(X[ds]) > BATCH_SIZE
    /\ yielded_x = X[ds]

=============================================================================
